---- MODULE Spec2Model ----
(***************************************************************************)
(* Model of bin/anthology/people.py: the PersonName value and the          *)
(* PersonIndex registry (variant resolution, slug assignment, papers and   *)
(* co-author bookkeeping, lookups).                                        *)
(*                                                                         *)
(* Python strings are modelled as sequences of one-character strings, so   *)
(* that strip(), split(" || ") and format() are computed, not assumed.     *)
(***************************************************************************)
EXTENDS Integers, Sequences, FiniteSets, TLC

VARIABLES
    variants,     \* self.variants : name string -> canonical name string
    slugifyKind,  \* which slugify routine the run is linked against
    names,        \* self.names : name string -> PersonName
    _all_slugs,    \* self._all_slugs : set of slugs issued so far
    slugs,        \* self.slugs : PersonName -> slug
    coauthors,    \* self.coauthors : PersonName -> Counter(PersonName)
    papers,       \* self.papers : PersonName -> ordered dict role -> list of ids
    last,         \* the most recent call: operation, arguments, result
    log,          \* the register() calls made so far, in call order
    nops,         \* number of calls the run still makes
    frames        \* thread -> its register() call in flight; empty while calls run one at a time

vars == <<variants, slugifyKind, names, _all_slugs, slugs, coauthors, papers, last, log, nops, frames>>

index == <<names, _all_slugs, slugs, coauthors, papers>>

(***************************************************************************)
(* Bounds of the model.                                                    *)
(***************************************************************************)
MaxLen == 2

MaxOps == 2

(***************************************************************************)
(* Strings.                                                                *)
(***************************************************************************)
Empty == << >>

Space == " "

\* The separator token " || " of from_repr and __repr__.
Sep == <<" ", "|", "|", " ">>

\* str.strip(): drop leading and trailing whitespace.
RECURSIVE LStrip(_)
LStrip(s) == IF s # Empty /\ Head(s) = Space THEN LStrip(Tail(s)) ELSE s

RECURSIVE RStrip(_)
RStrip(s) ==
    IF s # Empty /\ s[Len(s)] = Space THEN RStrip(SubSeq(s, 1, Len(s) - 1)) ELSE s

Strip(s) == RStrip(LStrip(s))

\* Index of the first occurrence of sep in s, 0 when there is none.
Find(s, sep) ==
    LET hits == {i \in 1..(Len(s) - Len(sep) + 1) : SubSeq(s, i, i + Len(sep) - 1) = sep}
    IN  IF hits = {} THEN 0 ELSE CHOOSE i \in hits : \A j \in hits : i <= j

\* str.split(sep): left to right, non-overlapping; always at least one part.
RECURSIVE Split(_, _)
Split(s, sep) ==
    LET i == Find(s, sep)
    IN  IF i = 0
        THEN <<s>>
        ELSE <<SubSeq(s, 1, i - 1)>> \o Split(SubSeq(s, i + Len(sep), Len(s)), sep)

(***************************************************************************)
(* PersonName.                                                             *)
(***************************************************************************)
\* PersonName.__init__: the three parts, each stripped.
PersonName(first, last_, jr) ==
    [first |-> Strip(first), last |-> Strip(last_), jr |-> Strip(jr)]

\* PersonName.from_repr
from_repr(repr_) ==
    LET parts == Split(repr_, Sep)
        first == parts[1]
        last_ == IF Len(parts) > 1 THEN parts[2] ELSE Empty
        jr    == IF Len(parts) > 2 THEN parts[3] ELSE Empty
    IN  PersonName(first, last_, jr)

\* A serialization that joins only the non-empty parts.
reprNonEmpty(n) ==
    LET a == n.first
        b == IF n.last = Empty THEN a
             ELSE IF a = Empty THEN n.last ELSE a \o Sep \o n.last
    IN  IF n.jr = Empty THEN b
        ELSE IF b = Empty THEN n.jr ELSE b \o Sep \o n.jr

\* PersonName.__repr__
repr(n) ==
    IF n.jr # Empty THEN n.first \o Sep \o n.last \o Sep \o n.jr
    ELSE IF n.first # Empty THEN n.first \o Sep \o n.last
    ELSE n.last

\* PersonName.__eq__
eq(a, b) == (a.first = b.first) /\ (a.last = b.last) /\ (a.jr = b.jr)

(***************************************************************************)
(* Python containers.                                                      *)
(***************************************************************************)
\* A dict as a function; d[k] = v adds or overwrites the key.
Put(d, k, v) == [x \in (DOMAIN d) \cup {k} |-> IF x = k THEN v ELSE d[x]]

\* collections.OrderedDict-like dict of role -> list: a sequence of entries.
RoleAt(d, role) ==
    LET hits == {i \in 1..Len(d) : d[i].role = role}
    IN  IF hits = {} THEN 0 ELSE CHOOSE i \in hits : TRUE

\* defaultdict(list).__getitem__: a missing role is inserted with an empty list.
TouchRole(d, role) ==
    IF RoleAt(d, role) = 0 THEN Append(d, [role |-> role, ids |-> << >>]) ELSE d

RoleList(d, role) ==
    IF RoleAt(d, role) = 0 THEN << >> ELSE d[RoleAt(d, role)].ids

\* A list that takes the new identifier at its front.
PrependRole(d, role, id) ==
    LET t == TouchRole(d, role)
        i == RoleAt(t, role)
    IN  [t EXCEPT ![i].ids = <<id>> \o @]

\* A list that keeps one copy of each identifier.
AppendRoleOnce(d, role, id) ==
    LET t == TouchRole(d, role)
        i == RoleAt(t, role)
    IN  IF \E j \in 1..Len(t[i].ids) : t[i].ids[j] = id
        THEN t
        ELSE [t EXCEPT ![i].ids = Append(@, id)]

\* d[role].append(id) on a defaultdict(list)
AppendRole(d, role, id) ==
    LET t == TouchRole(d, role)
        i == RoleAt(t, role)
    IN  [t EXCEPT ![i].ids = Append(@, id)]

\* [p for p_list in d.values() for p in p_list]
RECURSIVE Flatten(_)
Flatten(d) == IF d = << >> THEN << >> ELSE Head(d).ids \o Flatten(Tail(d))

\* defaultdict.__getitem__ on the outer mappings: a missing key is inserted.
Touch(d, k, default) == IF k \in DOMAIN d THEN d ELSE Put(d, k, default)

\* Counter.__getitem__: a missing key counts 0 and is not inserted.
Count(c, k) == IF k \in DOMAIN c THEN c[k] ELSE 0

(***************************************************************************)
(* The inputs of a run: name strings, names, papers, roles, variant files. *)
(***************************************************************************)
sV == <<"v">>

sW == <<"w">>

sA == <<"A">>

sAB == <<"A", " ", "|", "|", " ", "b">>

nV == PersonName(Empty, sV, Empty)

nW == PersonName(Empty, sW, Empty)

nA == PersonName(Empty, sA, Empty)

nAB == PersonName(<<"A">>, <<"b">>, Empty)

Names == {nV, nW, nA, nAB}

Roles == {"author", "editor"}

None == "None"

\* A paper object: full_id and get(role).
Paper1 ==
    [full_id |-> "P1",
     people  |-> [r \in Roles |-> IF r = "author" THEN <<nV, nAB, nW>> ELSE << >>]]

Paper2 ==
    [full_id |-> "P2",
     people  |-> [r \in Roles |-> IF r = "author" THEN <<nA, nW, nW>> ELSE <<nV, nA>>]]

Papers == {Paper1, Paper2}

\* paper.get(role)
get(paper, role) == paper.people[role]

\* The content of name_variants.yaml: canonical -> list of variants, in file order.
NoFile == << >>

FileTwoVariants == << [canonical |-> sAB, variants |-> <<sV, sW>>] >>

FileOnePart == << [canonical |-> sA, variants |-> <<sV, sW>>] >>

\* A canonical name that is itself listed as a variant of another one.
FileChain ==
    << [canonical |-> sAB, variants |-> <<sV>>], [canonical |-> sW, variants |-> <<sAB>>] >>

VariantFiles == {NoFile, FileTwoVariants, FileOnePart, FileChain}

\* PersonIndex.load_variant_list: variants[variant] = canonical, later entries win.
RECURSIVE LoadVariants(_, _, _)
LoadVariants(tbl, vs, canonical) ==
    IF vs = << >> THEN tbl
    ELSE LoadVariants(Put(tbl, Head(vs), canonical), Tail(vs), canonical)

RECURSIVE load_variant_list(_, _)
load_variant_list(tbl, name_dict) ==
    IF name_dict = << >> THEN tbl
    ELSE load_variant_list(
             LoadVariants(tbl, Head(name_dict).variants, Head(name_dict).canonical),
             Tail(name_dict))

\* A lookup keyed by the surname instead of the serialized name.
CanonicalByLast(tbl, name) ==
    IF name.last \in DOMAIN tbl THEN from_repr(tbl[name.last]) ELSE name

\* PersonIndex.get_canonical_variant, for a variant table tbl
CanonicalIn(tbl, name) ==
    LET name_repr == repr(name)
    IN  IF name_repr \in DOMAIN tbl THEN from_repr(tbl[name_repr]) ELSE name

\* A register() and lookups that skip variant resolution.
KeepName(name) == name

get_canonical_variant(name) == CanonicalIn(variants, name)

(***************************************************************************)
(* slugify: the external routine register() calls.  Deterministic, string  *)
(* to URL-safe lowercase token.  The run is linked against one of three:   *)
(*   "real"   lowercases, turns every run of other characters into one     *)
(*            hyphen and drops leading and trailing hyphens;               *)
(*   "empty"  returns the empty string for every input;                    *)
(*   "short"  returns "b" for a one-character input and "b1" otherwise.    *)
(***************************************************************************)
SlugifyKinds == {"real", "empty", "short"}

Alnum == {"a", "b", "v", "w", "0", "1", "2", "3", "4", "5", "6", "7", "8", "9"}

Hyphen == "-"

Lower(c) == IF c = "A" THEN "a" ELSE c

RECURSIVE Hyphenate(_)
Hyphenate(s) ==
    IF s = Empty THEN Empty
    ELSE LET c == IF Lower(Head(s)) \in Alnum THEN Lower(Head(s)) ELSE Hyphen
             rest == Hyphenate(Tail(s))
         IN  IF c = Hyphen /\ (rest = Empty \/ Head(rest) = Hyphen)
             THEN rest
             ELSE <<c>> \o rest

SlugifyReal(s) ==
    LET h == Hyphenate(s)
    IN  IF h # Empty /\ Head(h) = Hyphen THEN Tail(h) ELSE h

slugify(s) ==
    CASE slugifyKind = "real"  -> SlugifyReal(s)
      [] slugifyKind = "empty" -> Empty
      [] slugifyKind = "short" -> IF Len(s) <= 1 THEN <<"b">> ELSE <<"b", "1">>

\* "{}".format(i) for an integer i >= 0
Digit(d) == CASE d = 0 -> "0" [] d = 1 -> "1" [] d = 2 -> "2" [] d = 3 -> "3"
              [] d = 4 -> "4" [] d = 5 -> "5" [] d = 6 -> "6" [] d = 7 -> "7"
              [] d = 8 -> "8" [] d = 9 -> "9"

RECURSIVE Decimal(_)
Decimal(i) == IF i < 10 THEN <<Digit(i)>> ELSE Decimal(i \div 10) \o <<Digit(i % 10)>>

\* A loop that formats the counter before it increments it.
RECURSIVE UniqueSlugFromZero(_, _, _, _)
UniqueSlugFromZero(base, slug, i, used) ==
    IF slug \in used
    THEN UniqueSlugFromZero(base, base \o Decimal(i), i + 1, used)
    ELSE slug

\* The loop of register(): slug, i = slugify(name_repr), 0; while slug in used: ...
RECURSIVE UniqueSlug(_, _, _, _)
UniqueSlug(base, slug, i, used) ==
    IF slug \in used
    THEN UniqueSlug(base, base \o Decimal(i + 1), i + 1, used)
    ELSE slug

\* A register() that takes slugify's value as it is, without the uniqueness loop.
NewSlugNoLoop(name_repr, used) == slugify(name_repr)

NewSlug(name_repr, used) == UniqueSlug(slugify(name_repr), slugify(name_repr), 0, used)

\* A co-author loop that counts the pair in both directions.
RECURSIVE AddCoauthorsBothWays(_, _, _)
AddCoauthorsBothWays(co, name, authors) ==
    IF authors = << >> THEN co
    ELSE LET author == get_canonical_variant(Head(authors))
             co1 == IF ~eq(author, name)
                    THEN LET t == Touch(co, name, << >>)
                             u == Put(t, name, Put(t[name], author, Count(t[name], author) + 1))
                             w == Touch(u, author, << >>)
                         IN  Put(w, author, Put(w[author], name, Count(w[author], name) + 1))
                    ELSE co
         IN  AddCoauthorsBothWays(co1, name, Tail(authors))

\* A co-author loop that compares the listed name, not its canonical form,
\* with the registered identity.
RECURSIVE AddCoauthorsRaw(_, _, _)
AddCoauthorsRaw(co, name, authors) ==
    IF authors = << >> THEN co
    ELSE LET author == get_canonical_variant(Head(authors))
             co1 == IF ~eq(Head(authors), name)
                    THEN LET t == Touch(co, name, << >>)
                         IN  Put(t, name, Put(t[name], author, Count(t[name], author) + 1))
                    ELSE co
         IN  AddCoauthorsRaw(co1, name, Tail(authors))

\* The co-author loop of register(): for author in paper.get(role): ...
RECURSIVE AddCoauthors(_, _, _)
AddCoauthors(co, name, authors) ==
    IF authors = << >> THEN co
    ELSE LET author == get_canonical_variant(Head(authors))
             co1 == IF ~eq(author, name)
                    THEN LET t == Touch(co, name, << >>)
                         IN  Put(t, name, Put(t[name], author, Count(t[name], author) + 1))
                    ELSE co
         IN  AddCoauthors(co1, name, Tail(authors))

(***************************************************************************)
(* PersonIndex.                                                            *)
(***************************************************************************)
\* PersonIndex.__init__(srcdir): the variant file is read once, here.
Init ==
    /\ variants \in {load_variant_list(<< >>, f) : f \in VariantFiles}
    /\ slugifyKind \in SlugifyKinds
    /\ names = << >>
    /\ _all_slugs = {Empty}
    /\ slugs = << >>
    /\ coauthors = << >>
    /\ papers = << >>
    /\ last = [op |-> "init"]
    /\ log = << >>
    /\ nops = MaxOps
    /\ frames = << >>

Called == nops > 0 /\ nops' = nops - 1 /\ UNCHANGED <<variants, slugifyKind, frames>>

\* A register() that issues a slug on every call, not only on the first.
registerReslug(name0, paper, role) ==
    LET name == get_canonical_variant(name0)
        name_repr == repr(name)
        slug == NewSlug(name_repr, _all_slugs)
    IN  /\ Called
        /\ names' = Put(names, name_repr, name)
        /\ _all_slugs' = _all_slugs \cup {slug}
        /\ slugs' = Put(slugs, name, slug)
        /\ papers' = LET t == Touch(papers, name, << >>)
                     IN  Put(t, name, AppendRole(t[name], role, paper.full_id))
        /\ coauthors' = AddCoauthors(coauthors, name, get(paper, role))
        /\ last' = [op |-> "register", name |-> name0, paper |-> paper, role |-> role,
                    ret |-> name_repr]
        /\ log' = Append(log, last')

\* PersonIndex.register(name, paper, role)
register(name0, paper, role) ==
    LET name == get_canonical_variant(name0)
        name_repr == repr(name)
        fresh == name_repr \notin DOMAIN names
        slug == NewSlug(name_repr, _all_slugs)
    IN  /\ Called
        /\ names' = IF fresh THEN Put(names, name_repr, name) ELSE names
        /\ _all_slugs' = IF fresh THEN _all_slugs \cup {slug} ELSE _all_slugs
        /\ slugs' = IF fresh THEN Put(slugs, name, slug) ELSE slugs
        /\ papers' = LET t == Touch(papers, name, << >>)
                     IN  Put(t, name, AppendRole(t[name], role, paper.full_id))
        /\ coauthors' = AddCoauthors(coauthors, name, get(paper, role))
        /\ last' = [op |-> "register", name |-> name0, paper |-> paper, role |-> role,
                    ret |-> name_repr]
        /\ log' = Append(log, last')

\* PersonIndex.items()
items ==
    /\ Called
    /\ UNCHANGED <<index, log>>
    /\ last' = [op |-> "items", ret |-> {<<k, names[k]>> : k \in DOMAIN names}]

\* PersonIndex.__len__()
len ==
    /\ Called
    /\ UNCHANGED <<index, log>>
    /\ last' = [op |-> "len", ret |-> Cardinality(DOMAIN names)]

\* get_slug over a self.slugs that hands out a default for a missing key.
get_slugDefault(name0) ==
    LET name == get_canonical_variant(name0)
    IN  /\ Called
        /\ UNCHANGED <<index, log>>
        /\ last' = [op |-> "get_slug", name |-> name0, exc |-> "none",
                    ret |-> IF name \in DOMAIN slugs THEN slugs[name] ELSE Empty]

\* PersonIndex.get_slug(name): self.slugs is a plain dict, a missing key raises.
get_slug(name0) ==
    LET name == get_canonical_variant(name0)
    IN  /\ Called
        /\ UNCHANGED <<index, log>>
        /\ last' = IF name \in DOMAIN slugs
                   THEN [op |-> "get_slug", name |-> name0, exc |-> "none", ret |-> slugs[name]]
                   ELSE [op |-> "get_slug", name |-> name0, exc |-> "KeyError"]

\* The mapping self.papers after get_papers(name, role) has read it.
PapersRead(name, role) ==
    LET t == Touch(papers, name, << >>)
    IN  IF role = None THEN t ELSE Put(t, name, TouchRole(t[name], role))

\* The list get_papers(name, role) returns.
PapersOf(name, role) ==
    LET d == IF name \in DOMAIN papers THEN papers[name] ELSE << >>
    IN  IF role = None THEN Flatten(d) ELSE RoleList(d, role)

\* PersonIndex.get_papers(name, role=None)
get_papers(name0, role) ==
    LET name == get_canonical_variant(name0)
    IN  /\ Called
        /\ papers' = PapersRead(name, role)
        /\ UNCHANGED <<names, _all_slugs, slugs, coauthors, log>>
        /\ last' = [op |-> "get_papers", name |-> name0, role |-> role,
                    ret |-> PapersOf(name, role)]

\* PersonIndex.get_coauthors(name): the items of the Counter, as a set of pairs.
get_coauthors(name0) ==
    LET name == get_canonical_variant(name0)
        t == Touch(coauthors, name, << >>)
    IN  /\ Called
        /\ coauthors' = t
        /\ UNCHANGED <<names, _all_slugs, slugs, papers, log>>
        /\ last' = [op |-> "get_coauthors", name |-> name0,
                    ret |-> {<<a, t[name][a]>> : a \in DOMAIN t[name]}]

\* VenueIndex.get_associated_venues(paper), the external venue index.
get_associated_venues(paper) == IF paper = "P1" THEN <<"acl">> ELSE <<"acl", "bea">>

\* The loops of get_venues: venues[venue] += 1 for every venue of every paper.
RECURSIVE CountVenues(_, _)
CountVenues(venues, vs) ==
    IF vs = << >> THEN venues
    ELSE CountVenues(Put(venues, Head(vs), Count(venues, Head(vs)) + 1), Tail(vs))

RECURSIVE VenuesOfPapers(_, _)
VenuesOfPapers(venues, ps) ==
    IF ps = << >> THEN venues
    ELSE VenuesOfPapers(CountVenues(venues, get_associated_venues(Head(ps))), Tail(ps))

\* PersonIndex.get_venues(vidx, name)
get_venues(name0) ==
    LET name == get_canonical_variant(name0)
    IN  /\ Called
        /\ papers' = PapersRead(name, None)
        /\ UNCHANGED <<names, _all_slugs, slugs, coauthors, log>>
        /\ last' = [op |-> "get_venues", name |-> name0,
                    ret |-> VenuesOfPapers(<< >>, PapersOf(name, None))]

Next ==
    \/ \E n \in Names, p \in Papers, r \in Roles : register(n, p, r)
    \/ items
    \/ len
    \/ \E n \in Names : get_slug(n)
    \/ \E n \in Names, r \in Roles \cup {None} : get_papers(n, r)
    \/ \E n \in Names : get_coauthors(n)
    \/ \E n \in Names : get_venues(n)

Spec == Init /\ [][Next]_vars

(***************************************************************************)
(* PersonName and get_canonical_variant as functions: a name is built from *)
(* three strings, serialized, parsed back, and resolved twice against the  *)
(* variant table.                                                          *)
(***************************************************************************)
PartChars == {"a", " ", "|"}

\* All strings over PartChars of length at most n.
RECURSIVE Strings(_)
Strings(n) ==
    IF n = 0 THEN {Empty}
    ELSE Strings(n - 1) \cup {Append(s, c) : s \in {t \in Strings(n - 1) : Len(t) = n - 1}, c \in PartChars}

\* Parts that touch the separator without containing it, and the name strings
\* of the variant files.
ExtraParts == {<<"a", " ", "|", "|">>, <<"|", "|", " ", "a">>, <<"b">>, sV, sW}

Parts == Strings(MaxLen) \cup ExtraParts

\* A canonical name whose surname is another entry's variant.
FileCross ==
    << [canonical |-> <<"a", " ", "|", "|", " ", "w">>, variants |-> <<sV>>],
       [canonical |-> sAB, variants |-> <<sW>>] >>

InitName ==
    /\ variants \in {load_variant_list(<< >>, f) : f \in VariantFiles \cup {FileCross}}
    /\ slugifyKind = "real"
    /\ names = << >>
    /\ _all_slugs = {Empty}
    /\ slugs = << >>
    /\ coauthors = << >>
    /\ papers = << >>
    /\ log = << >>
    /\ nops = 0
    /\ frames = << >>
    /\ \E first \in Parts, last_ \in Parts, jr \in Parts :
           last = [op |-> "PersonName", ret |-> PersonName(first, last_, jr)]

Returned == UNCHANGED <<variants, slugifyKind, index, log, nops, frames>>

\* repr(name)
DoRepr ==
    /\ last.op = "PersonName"
    /\ last' = [op |-> "repr", name |-> last.ret, ret |-> repr(last.ret)]
    /\ Returned

\* PersonName.from_repr(repr(name))
DoFromRepr ==
    /\ last.op = "repr"
    /\ last' = [op |-> "from_repr", name |-> last.name, arg |-> last.ret,
                ret |-> from_repr(last.ret)]
    /\ Returned

\* get_canonical_variant(name)
DoCanonical ==
    /\ last.op = "PersonName"
    /\ last' = [op |-> "canonical", name |-> last.ret,
                ret |-> get_canonical_variant(last.ret)]
    /\ Returned

\* get_canonical_variant(get_canonical_variant(name))
DoCanonicalAgain ==
    /\ last.op = "canonical"
    /\ last' = [op |-> "canonical2", name |-> last.name, once |-> last.ret,
                ret |-> get_canonical_variant(last.ret)]
    /\ Returned

NextName == DoRepr \/ DoFromRepr \/ DoCanonical \/ DoCanonicalAgain

SpecName == InitName /\ [][NextName]_vars

(***************************************************************************)
(* Two PersonName values side by side: their serializations and __eq__.    *)
(***************************************************************************)
\* The one-character strings and two parts that end or begin with the bars of
\* the separator.
PairParts == Strings(1) \cup {<<"a", " ", "|", "|">>, <<"|", "|", " ", "a">>}

InitTwoNames ==
    /\ variants = << >>
    /\ slugifyKind = "real"
    /\ names = << >>
    /\ _all_slugs = {Empty}
    /\ slugs = << >>
    /\ coauthors = << >>
    /\ papers = << >>
    /\ log = << >>
    /\ nops = 0
    /\ frames = << >>
    /\ \E f1 \in PairParts, l1 \in PairParts, j1 \in PairParts,
          f2 \in PairParts, l2 \in PairParts, j2 \in PairParts :
           last = [op |-> "PersonNames", a |-> PersonName(f1, l1, j1),
                   b |-> PersonName(f2, l2, j2)]

\* repr(a), repr(b) and a == b
DoCompare ==
    /\ last.op = "PersonNames"
    /\ last' = [op |-> "compare", a |-> last.a, b |-> last.b,
                repr_a |-> repr(last.a), repr_b |-> repr(last.b),
                eq |-> eq(last.a, last.b)]
    /\ Returned

SpecTwoNames == InitTwoNames /\ [][DoCompare]_vars

(***************************************************************************)
(* The index driven for one more call, with an ordinary name and two names *)
(* whose parts differ and whose serializations are the same string.        *)
(***************************************************************************)
MaxDeepOps == 3

nX1 == PersonName(<<"a", " ", "|", "|">>, <<"b">>, Empty)

nX2 == PersonName(<<"a">>, <<"|", "|", " ", "b">>, Empty)

DeepNames == {nA, nX1, nX2}

InitDeep ==
    /\ variants = load_variant_list(<< >>, NoFile)
    /\ slugifyKind \in SlugifyKinds
    /\ names = << >>
    /\ _all_slugs = {Empty}
    /\ slugs = << >>
    /\ coauthors = << >>
    /\ papers = << >>
    /\ last = [op |-> "init"]
    /\ log = << >>
    /\ nops = MaxDeepOps
    /\ frames = << >>

NextDeep ==
    \/ \E n \in DeepNames, p \in Papers, r \in Roles : register(n, p, r)
    \/ len
    \/ \E n \in DeepNames : get_slug(n)
    \/ \E n \in DeepNames, r \in Roles \cup {None} : get_papers(n, r)

SpecDeep == InitDeep /\ [][NextDeep]_vars

(***************************************************************************)
(* register() called from two threads without a lock.  A thread can be     *)
(* suspended between the loop that finds a free slug (lines 116-119) and   *)
(* the statements that reserve it (lines 120-121), and again before the    *)
(* bookkeeping of papers and co-authors (lines 123-128).                   *)
(***************************************************************************)
Threads == {1, 2}

InitThreads ==
    /\ variants \in {load_variant_list(<< >>, f) : f \in VariantFiles}
    /\ slugifyKind \in SlugifyKinds
    /\ names = << >>
    /\ _all_slugs = {Empty}
    /\ slugs = << >>
    /\ coauthors = << >>
    /\ papers = << >>
    /\ last = [op |-> "init"]
    /\ log = << >>
    /\ nops = 0
    /\ frames = [t \in Threads |-> [pc |-> "idle", overlap |-> FALSE]]

\* Lines 111-119: canonicalize, test and enter the serialization in names,
\* find a slug outside _all_slugs.  overlap records, for the properties, that
\* another thread stood between its own search and its reservation.
Enter(t, name0, paper, role) ==
    LET name == get_canonical_variant(name0)
        name_repr == repr(name)
        fresh == name_repr \notin DOMAIN names
    IN  /\ frames[t].pc = "idle"
        /\ names' = IF fresh THEN Put(names, name_repr, name) ELSE names
        /\ frames' = [frames EXCEPT ![t] =
                         [pc |-> IF fresh THEN "reserve" ELSE "papers",
                          overlap |-> \E u \in Threads \ {t} : frames[u].pc = "reserve",
                          name0 |-> name0, paper |-> paper, role |-> role,
                          name |-> name, name_repr |-> name_repr,
                          slug |-> NewSlug(name_repr, _all_slugs)]]
        /\ UNCHANGED <<variants, slugifyKind, _all_slugs, slugs, coauthors, papers,
                       last, log, nops>>

\* Lines 120-121: self._all_slugs.add(slug); self.slugs[name] = slug
Reserve(t) ==
    /\ frames[t].pc = "reserve"
    /\ _all_slugs' = _all_slugs \cup {frames[t].slug}
    /\ slugs' = Put(slugs, frames[t].name, frames[t].slug)
    /\ frames' = [frames EXCEPT ![t].pc = "papers"]
    /\ UNCHANGED <<variants, slugifyKind, names, coauthors, papers, last, log, nops>>

\* Lines 123-130: the paper, the co-authors, return name_repr.
Record(t) ==
    LET f == frames[t]
    IN  /\ f.pc = "papers"
        /\ papers' = LET d == Touch(papers, f.name, << >>)
                     IN  Put(d, f.name, AppendRole(d[f.name], f.role, f.paper.full_id))
        /\ coauthors' = AddCoauthors(coauthors, f.name, get(f.paper, f.role))
        /\ last' = [op |-> "register", name |-> f.name0, paper |-> f.paper,
                    role |-> f.role, ret |-> f.name_repr]
        /\ log' = Append(log, last')
        /\ frames' = [frames EXCEPT ![t].pc = "done"]
        /\ UNCHANGED <<variants, slugifyKind, names, _all_slugs, slugs, nops>>

NextThreads ==
    \E t \in Threads :
        \/ \E n \in Names, p \in Papers, r \in Roles : Enter(t, n, p, r)
        \/ Reserve(t)
        \/ Record(t)

SpecThreads == InitThreads /\ [][NextThreads]_vars

(***************************************************************************)
(* Properties.                                                             *)
(***************************************************************************)
LookupOps == {"items", "len", "get_slug", "get_papers", "get_coauthors", "get_venues"}

Contains(s, sep) == Find(s, sep) # 0

\* The keys of slugs, papers and coauthors.
Keys == (DOMAIN slugs) \cup (DOMAIN papers) \cup (DOMAIN coauthors)

\* C1: after any sequence of register() calls, whatever the variant table and
\* the slugify routine, the values of the slug map are pairwise distinct and
\* none of them is the empty string.
SlugsUnique ==
    \A a \in DOMAIN slugs :
        /\ slugs[a] # Empty
        /\ \A b \in DOMAIN slugs : a # b => slugs[a] # slugs[b]

\* Two identities whose names slugify to the same token both hold a slug.
SlugsUniqueWitness ==
    \E a \in DOMAIN slugs, b \in DOMAIN slugs :
        /\ a # b
        /\ slugify(repr(a)) = slugify(repr(b))
        /\ Empty \in {slugify(repr(x)) : x \in DOMAIN slugs} \/ slugifyKind = "short"

\* C3: for every name whose last part is non-empty and none of whose parts
\* contains the separator, from_repr(repr(name)) equals the name in all three
\* parts.
RoundTrip ==
    (/\ last.op = "from_repr"
     /\ last.name.last # Empty
     /\ ~Contains(last.name.first, Sep)
     /\ ~Contains(last.name.last, Sep)
     /\ ~Contains(last.name.jr, Sep))
    => eq(last.ret, last.name)

\* C4: a lookup (items, len, get_slug, get_papers, get_coauthors, get_venues)
\* leaves names, _all_slugs, slugs, coauthors and papers as they were.
LookupsArePureReads == [][last'.op \in LookupOps => UNCHANGED index]_vars

\* No canonical name of the variant table, once parsed and serialized again,
\* is itself listed as a variant.
NoChain ==
    \A v \in DOMAIN variants : repr(from_repr(variants[v])) \notin DOMAIN variants

\* C5 as stated: whatever the variant table, no key of slugs, papers or
\* coauthors has a serialization that is a key of the variant table.
KeysNeverVariants == \A k \in Keys : repr(k) \notin DOMAIN variants

\* C5: when no canonical name of the variant table is itself listed as a
\* variant, no key of slugs, papers or coauthors has a serialization that is
\* a key of the variant table, after any sequence of register() and lookup calls.
KeysCanonical == NoChain => \A k \in Keys : repr(k) \notin DOMAIN variants

\* A variant form was registered and looked up; its canonical identity is a
\* key of slugs, papers and coauthors.
KeysCanonicalWitness ==
    /\ NoChain
    /\ \E i \in 1..Len(log) :
           /\ repr(log[i].name) \in DOMAIN variants
           /\ get_canonical_variant(log[i].name) \in
                  (DOMAIN slugs) \cap (DOMAIN papers) \cap (DOMAIN coauthors)

\* C6 as stated: for every variant table, resolving a name twice gives what
\* resolving it once gives.
CanonicalIdempotentAnyTable == last.op = "canonical2" => last.ret = last.once

\* C6: when no canonical name of the variant table is itself listed as a
\* variant, get_canonical_variant(get_canonical_variant(x)) equals
\* get_canonical_variant(x) for every name x.
CanonicalIdempotent == (NoChain /\ last.op = "canonical2") => last.ret = last.once

\* A listed variant was resolved, and resolved again.
CanonicalIdempotentWitness ==
    /\ NoChain
    /\ last.op = "canonical2"
    /\ repr(last.name) \in DOMAIN variants
    /\ last.once # last.name

\* The variant forms of one canonical name were registered, nothing else:
\* two calls, different variants of the same canonical string, each with its
\* own paper, under the same role.
VariantsOfOneName ==
    /\ Len(log) = 2
    /\ repr(log[1].name) \in DOMAIN variants
    /\ repr(log[2].name) \in DOMAIN variants
    /\ repr(log[1].name) # repr(log[2].name)
    /\ variants[repr(log[1].name)] = variants[repr(log[2].name)]
    /\ log[1].paper.full_id # log[2].paper.full_id
    /\ log[1].role = log[2].role

\* Size() is 1 and get_papers under either name, with or without the role,
\* returns the two paper identifiers in registration order.
OneIdentityTwoPapers ==
    /\ Cardinality(DOMAIN names) = 1
    /\ \A i \in 1..2 : \A r \in {None, log[1].role} :
           PapersOf(get_canonical_variant(log[i].name), r)
               = <<log[1].paper.full_id, log[2].paper.full_id>>

VariantAndCanonicalAgree ==
    (/\ Len(log) = 2
     /\ \E i \in 1..2 :
            /\ repr(log[i].name) \in DOMAIN variants
            /\ repr(log[3 - i].name) = variants[repr(log[i].name)])
    => /\ log[1].ret = log[2].ret
       /\ Cardinality(DOMAIN names) = 1
       /\ \A i \in 1..2 : get_canonical_variant(log[i].name) \in DOMAIN slugs
       /\ slugs[get_canonical_variant(log[1].name)] = slugs[get_canonical_variant(log[2].name)]

\* The slug the collision rule gives base token b when the slugs in used are taken:
\* b itself, or b followed by the smallest i >= 1 that makes it free.
FreeSuffixes(b, used) == {i \in 1..(Cardinality(used) + 1) : b \o Decimal(i) \notin used}

ExpectedSlug(b, used) ==
    IF b \notin used THEN b
    ELSE b \o Decimal(CHOOSE i \in FreeSuffixes(b, used) : \A j \in FreeSuffixes(b, used) : i <= j)

\* A register() call that met a serialization not yet in names.
FirstRegistration == log' # log /\ last'.ret \notin DOMAIN names

\* Two register() calls, into the empty index, of two identities whose
\* serializations slugify to the same non-empty token.
TwoWithSameBase ==
    /\ Len(log) = 2
    /\ log[1].ret # log[2].ret
    /\ slugify(log[1].ret) = slugify(log[2].ret)
    /\ slugify(log[1].ret) # Empty

Identities == {get_canonical_variant(n) : n \in Names} \cup Keys

\* Number of entries of authors that resolve to identity b.
Occurrences(authors, b) ==
    Cardinality({i \in 1..Len(authors) : get_canonical_variant(authors[i]) = b})

CounterOf(co, a) == IF a \in DOMAIN co THEN co[a] ELSE << >>

\* C9: register(A, P, role) adds to coauthors[A][B] the number of occurrences
\* of B in P.get(role), for every B other than A, and changes no counter
\* coauthors[Y] of another identity Y.
CoauthorsOneWay ==
    [][log' # log =>
          LET a == get_canonical_variant(last'.name)
              authors == get(last'.paper, last'.role)
          IN  /\ \A b \in Identities \ {a} :
                     Count(CounterOf(coauthors', a), b)
                         = Count(CounterOf(coauthors, a), b) + Occurrences(authors, b)
              /\ \A y \in (Identities \cup DOMAIN coauthors') \ {a} :
                     /\ y \in DOMAIN coauthors' <=> y \in DOMAIN coauthors
                     /\ CounterOf(coauthors', y) = CounterOf(coauthors, y)]_vars

\* A was registered with a paper that lists another identity twice; that
\* identity has no counter of its own.
CoauthorsOneWayWitness ==
    /\ last.op = "register"
    /\ \E b \in Identities :
           /\ b # get_canonical_variant(last.name)
           /\ Occurrences(get(last.paper, last.role), b) = 2
           /\ Occurrences(get(last.paper, last.role), get_canonical_variant(last.name)) > 0
           /\ Count(CounterOf(coauthors, get_canonical_variant(last.name)), b) = 2
           /\ b \notin DOMAIN coauthors

\* The paper identifiers of the register() calls that resolved to identity id
\* under role, in call order.
RECURSIVE Registered(_, _, _)
Registered(calls, id, role) ==
    IF calls = << >> THEN << >>
    ELSE (IF get_canonical_variant(Head(calls).name) = id /\ Head(calls).role = role
          THEN <<Head(calls).paper.full_id>> ELSE << >>)
         \o Registered(Tail(calls), id, role)

\* C10: papers[identity][role] is the sequence of paper identifiers of the
\* register() calls that resolved to that identity with that role, in call
\* order, duplicates kept.
PapersAccumulate ==
    \A id \in Identities : \A role \in Roles :
        RoleList(IF id \in DOMAIN papers THEN papers[id] ELSE << >>, role)
            = Registered(log, id, role)

\* The same (name, paper, role) was registered twice.
PapersAccumulateWitness ==
    /\ Len(log) = 2
    /\ log[1] = log[2]
    /\ RoleList(papers[get_canonical_variant(log[1].name)], log[1].role)
           = <<log[1].paper.full_id, log[1].paper.full_id>>

\* No register() call of the run resolved to the identity of name n.
NeverRegistered(n) ==
    \A i \in 1..Len(log) :
        get_canonical_variant(log[i].name) # get_canonical_variant(n)

\* C11: for a name whose identity was never registered, get_papers (with or
\* without role) returns the empty list, get_coauthors returns no pair, and
\* get_slug raises KeyError, also when get_papers or get_coauthors was called
\* on that name before.
UnknownLookups ==
    NeverRegistered(IF "name" \in DOMAIN last THEN last.name ELSE nV) =>
        /\ last.op = "get_papers" => last.ret = << >>
        /\ last.op = "get_coauthors" => last.ret = {}
        /\ last.op = "get_slug" => last.exc = "KeyError"

\* get_slug raised for a name that an earlier read-style lookup had already
\* entered as a key of papers or coauthors.
UnknownLookupsWitness ==
    /\ last.op = "get_slug"
    /\ last.exc = "KeyError"
    /\ NeverRegistered(last.name)
    /\ get_canonical_variant(last.name) \in (DOMAIN papers) \cup (DOMAIN coauthors)

\* C12: from_repr of a string that contains no separator puts the whole string
\* into last and leaves first and jr empty.
FromReprNoSeparator ==
    (last.op = "from_repr" /\ ~Contains(last.arg, Sep)) =>
        last.ret = [first |-> Empty, last |-> last.arg, jr |-> Empty]

\* Neither name has a part that contains the separator.
NoSeparatorInParts ==
    \A n \in {last.a, last.b} :
        ~Contains(n.first, Sep) /\ ~Contains(n.last, Sep) /\ ~Contains(n.jr, Sep)

\* C13: two names of stripped parts, none containing the separator, that have
\* the same serialization are equal in all three parts.
ReprInjective ==
    (last.op = "compare" /\ NoSeparatorInParts /\ last.repr_a = last.repr_b) => last.eq

Bars == <<" ", "|", "|", " ">>

\* C14: the serialization of (first, last, jr) is first, last and jr joined by
\* " || " when jr is non-empty (also with first or last empty), else first and
\* last joined by " || " when first is non-empty (also with last empty), else
\* last alone.
ReprThreeCases ==
    last.op = "repr" =>
        LET n == last.name
        IN  /\ n.jr # << >> => last.ret = n.first \o Bars \o n.last \o Bars \o n.jr
            /\ (n.jr = << >> /\ n.first # << >>) => last.ret = n.first \o Bars \o n.last
            /\ (n.jr = << >> /\ n.first = << >>) => last.ret = n.last

\* A name with a suffix and neither first nor last part was serialized with
\* both separators.
ReprThreeCasesWitness ==
    /\ last.op = "repr"
    /\ last.name = [first |-> << >>, last |-> << >>, jr |-> <<"a">>]
    /\ last.ret = <<" ", "|", "|", " ", " ", "|", "|", " ", "a">>

\* The identities the register() calls of the run resolved to.
RegisteredIdentities == {get_canonical_variant(log[i].name) : i \in 1..Len(log)}

\* C15: len(index) is the number of distinct identities registered so far,
\* whatever registrations and lookups came before.
SizeCountsIdentities ==
    last.op = "len" => last.ret = Cardinality(RegisteredIdentities)

\* C16: whatever the variant table and the registrations, no identity X has
\* an entry for X in coauthors[X], also when the paper lists X under a variant
\* of its name or more than once.
NoSelfPairs ==
    \A x \in DOMAIN coauthors : x \notin DOMAIN coauthors[x]

\* The identity was registered with a paper that lists it twice, under a
\* variant of its name, next to another author.
NoSelfPairsWitness ==
    /\ last.op = "register"
    /\ LET x == get_canonical_variant(last.name)
           authors == get(last.paper, last.role)
       IN  /\ Occurrences(authors, x) = 2
           /\ \A i \in 1..Len(authors) :
                  get_canonical_variant(authors[i]) = x => authors[i] # x
           /\ x \in DOMAIN coauthors
           /\ DOMAIN coauthors[x] # {}
           /\ x \notin DOMAIN coauthors[x]

\* The roles under which identity id was registered, in order of first use.
RECURSIVE RolesUsed(_, _, _)
RolesUsed(calls, id, seen) ==
    IF calls = << >> THEN << >>
    ELSE LET c == Head(calls)
             new == get_canonical_variant(c.name) = id /\ c.role \notin seen
         IN  (IF new THEN <<c.role>> ELSE << >>)
             \o RolesUsed(Tail(calls), id, IF new THEN seen \cup {c.role} ELSE seen)

\* The registered papers of id, role by role.
RECURSIVE ByRole(_, _)
ByRole(roles, id) ==
    IF roles = << >> THEN << >>
    ELSE Registered(log, id, Head(roles)) \o ByRole(Tail(roles), id)

\* C17: get_papers(name) without role returns the per-role lists of the
\* identity concatenated, the roles taken in the order in which the identity
\* was first registered under them, and as many identifiers as there were
\* register() calls for the identity.
GetPapersRoleOrder ==
    \A n \in Names \cup DeepNames :
        LET id == get_canonical_variant(n)
        IN  /\ PapersOf(id, None) = ByRole(RolesUsed(log, id, {}), id)
            /\ Len(PapersOf(id, None))
                   = Cardinality({i \in 1..Len(log) : get_canonical_variant(log[i].name) = id})

SlugStable ==
    [][/\ \A k \in DOMAIN slugs : k \in DOMAIN slugs' /\ slugs'[k] = slugs[k]
       /\ _all_slugs \subseteq _all_slugs'
       /\ (last'.op = "get_slug" /\ get_canonical_variant(last'.name) \in DOMAIN slugs)
              => (last'.exc = "none" /\ last'.ret = slugs[get_canonical_variant(last'.name)])]_vars

\* The same identity was registered twice and still has the slug of its first
\* registration.
SlugStableWitness ==
    /\ Len(log) = 2
    /\ get_canonical_variant(log[1].name) = get_canonical_variant(log[2].name)
    /\ slugs[get_canonical_variant(log[1].name)] = ExpectedSlug(slugify(log[1].ret), {Empty})
    /\ Cardinality(_all_slugs) = 2

\* Two identities hold the same slug.
SharedSlug(a, b) == a # b /\ slugs[a] = slugs[b]

\* C18: with register() split at the point between finding a free slug and
\* reserving it, two identities come to hold the same slug only when one call
\* searched while the other stood between its search and its reservation;
\* calls that run one after the other never produce a shared slug.
SharedSlugOnlyByOverlap ==
    (\E a \in DOMAIN slugs, b \in DOMAIN slugs : SharedSlug(a, b))
        => \E t \in DOMAIN frames : frames[t].overlap

\* Both calls are finished, the two identities have the same base slug, and
\* both hold the same slug.
SharedSlugOnlyByOverlapWitness ==
    /\ \A t \in DOMAIN frames : frames[t].pc = "done"
    /\ \E a \in DOMAIN slugs, b \in DOMAIN slugs :
           /\ SharedSlug(a, b)
           /\ slugify(repr(a)) = slugify(repr(b))
           /\ {a, b} = {frames[t].name : t \in DOMAIN frames}

====
